---- MODULE Spec2Model ----
(***************************************************************************)
(* Pastecase: a browser clipboard manager.  PastecaseDB wraps one          *)
(* IndexedDB object store ("clips", keyPath id, autoIncrement);            *)
(* PastecaseApp keeps an in-memory clip list, three view parameters and    *)
(* the DOM (cards, modals, toasts).                                        *)
(*                                                                         *)
(* A JavaScript string is a sequence of one-character strings.  An async   *)
(* handler is cut at its awaits: the part between two awaits runs as one   *)
(* action, because the event loop runs it without interleaving.            *)
(***************************************************************************)
EXTENDS Integers, Sequences, FiniteSets, TLC

\* ------------------------------------------------------------------ bounds
\* Largest key the store's key generator hands out in a run.
MaxId == 2
\* Largest value of the clock (milliseconds since the first page load).
MaxTime == 2
\* Largest number of file reads and storage requests pending together.
MaxInFlight == 2
\* Largest number of files in one drop.
MaxDrop == 2
\* Longest list of records, and largest creation time, the view derivation
\* is applied to in SpecView.
MaxList == 3
MaxStamp == 3

\* ------------------------------------------------------------------ strings
Range(s) == {s[i] : i \in 1..Len(s)}

\* String.prototype.toLowerCase
UpperCase == <<"A", "B", "C", "D", "E", "F", "G", "H", "I", "J", "K", "L", "M", "N", "O", "P", "Q", "R", "S", "T", "U", "V", "W", "X", "Y", "Z">>
LowerCase == <<"a", "b", "c", "d", "e", "f", "g", "h", "i", "j", "k", "l", "m", "n", "o", "p", "q", "r", "s", "t", "u", "v", "w", "x", "y", "z">>

LowerMap == [i \in 1..Len(UpperCase) |-> LowerCase[i]]

UpperIndex == [c \in {UpperCase[i] : i \in 1..Len(UpperCase)} |->
                 CHOOSE i \in 1..Len(UpperCase) : UpperCase[i] = c]

LowerChar(c) == IF c \in DOMAIN UpperIndex THEN LowerMap[UpperIndex[c]] ELSE c

RECURSIVE toLowerCase(_)
toLowerCase(s) ==
  IF s = <<>> THEN <<>> ELSE <<LowerChar(Head(s))>> \o toLowerCase(Tail(s))

\* The characters String.prototype.trim removes.
IsWhiteSpace(c) == c \in {" ", "\n", "\t"}

RECURSIVE trimStart(_)
trimStart(s) ==
  IF s # <<>> /\ IsWhiteSpace(Head(s)) THEN trimStart(Tail(s)) ELSE s

RECURSIVE trimEnd(_)
trimEnd(s) ==
  IF s # <<>> /\ IsWhiteSpace(s[Len(s)])
  THEN trimEnd(SubSeq(s, 1, Len(s) - 1))
  ELSE s

\* String.prototype.trim
trim(s) == trimEnd(trimStart(s))

\* String.prototype.startsWith / endsWith
startsWith(s, p) == Len(p) <= Len(s) /\ SubSeq(s, 1, Len(p)) = p

endsWith(s, p) ==
  Len(p) <= Len(s) /\ SubSeq(s, Len(s) - Len(p) + 1, Len(s)) = p

\* String.prototype.includes: q occurs in s at some position.
includes(s, q) ==
  \E i \in 1..(Len(s) - Len(q) + 1) : SubSeq(s, i, i + Len(q) - 1) = q

\* String.prototype.split(","): `acc` holds the finished pieces, `cur` the
\* piece being read; the last piece is kept even when it is empty.
RECURSIVE splitFrom(_, _, _)
splitFrom(s, acc, cur) ==
  IF s = <<>> THEN Append(acc, cur)
  ELSE IF Head(s) = "," THEN splitFrom(Tail(s), Append(acc, cur), <<>>)
  ELSE splitFrom(Tail(s), acc, Append(cur, Head(s)))

split(s) == splitFrom(s, <<>>, <<>>)

\* value.split(",").map((tag) => tag.trim()).filter((tag) => tag)
NonEmpty(t) == t # <<>>

\* parseTags without the map over trim.
parseTagsUntrimmed(value) == SelectSeq(split(value), NonEmpty)

parseTags(value) ==
  LET pieces == split(value)
      trimmed == [i \in 1..Len(pieces) |-> trim(pieces[i])]
  IN SelectSeq(trimmed, NonEmpty)

\* ------------------------------------------------------------------ inputs
\* What the user can have typed into the text modal: text-content, text-tags
\* and text-memo.
TextForms ==
  { [content |-> <<" ", "\n">>, tags |-> <<"a">>, memo |-> <<>>],
    [content |-> <<" ", "H", "e", "l", "l", "o", " ">>, tags |-> <<"a", ",", " ", "b">>, memo |-> <<" ", "M", "e", "m", "o", " ">>] }

\* The text modal's fields as hideTextModal leaves them.
ClearedTextForm == [content |-> <<>>, tags |-> <<>>, memo |-> <<>>]

\* Files the user can pick or drop: name, MIME type, size in bytes, the
\* base64 form of the bytes and their text.
PngFile ==
  [name |-> <<"p", ".", "p", "n", "g">>, type |-> <<"i", "m", "a", "g", "e", "/", "p", "n", "g">>, size |-> 3,
   base64 |-> <<"A", "b", "C", "d">>, text |-> <<"?", "?", "?">>]

MdFile ==
  [name |-> <<"r", ".", "m", "d">>, type |-> <<>>, size |-> 0,
   base64 |-> <<>>, text |-> <<>>]

PdfFile ==
  [name |-> <<"d", ".", "p", "d", "f">>, type |-> <<"a", "p", "p", "l", "i", "c", "a", "t", "i", "o", "n", "/", "p", "d", "f">>, size |-> 1,
   base64 |-> <<"J", "Q", "=", "=">>, text |-> <<"%">>]

Files == {PngFile, MdFile, PdfFile}

\* image-input with no file chosen (fileInput.files[0] is undefined).
NoFile == [name |-> <<>>, type |-> <<>>, size |-> -1, base64 |-> <<>>, text |-> <<>>]

\* What the user can have entered into the image modal.
ImageForms ==
  { [file |-> NoFile, tags |-> <<"x">>, memo |-> <<>>],
    [file |-> PngFile, tags |-> <<" ", "x">>, memo |-> <<"M">>] }

ClearedImageForm == [file |-> NoFile, tags |-> <<>>, memo |-> <<>>]

\* What the user can have typed into search-input.
Queries == {<<>>, <<"E", "L", "L">>}

\* The same for SpecView: also a text found in a memo, one found in a tag
\* only, and one found in the tags and memos of dropped files.
SearchTexts ==
  Queries \cup {<<"m", "E">>, <<"B">>, <<"d", "r", "o", "p">>}

\* The options of category-filter and of sort-select.
Categories == {"", "text", "image"}
SortOrders == {"newest", "oldest"}

\* The file lists of a drop event.
DropLists == UNION {[1..n -> Files] : n \in 1..MaxDrop}

\* The same for SpecDrop: also a file with a text MIME type, a JSON file, a
\* file with the name of a text file and no MIME type, an image with the
\* name of a text file, and a file with neither a known type nor a known
\* name.
PlainFile ==
  [name |-> <<"n">>, type |-> <<"t", "e", "x", "t", "/", "c", "s", "v">>, size |-> 1,
   base64 |-> <<"Y", "Q", "=", "=">>, text |-> <<"a">>]

JsonFile ==
  [name |-> <<"j">>, type |-> <<"a", "p", "p", "l", "i", "c", "a", "t", "i", "o", "n", "/", "j", "s", "o", "n">>, size |-> 1,
   base64 |-> <<"M", "Q", "=", "=">>, text |-> <<"1">>]

TxtFile ==
  [name |-> <<"t", ".", "t", "x", "t">>, type |-> <<>>, size |-> 1,
   base64 |-> <<"Y", "g", "=", "=">>, text |-> <<"b">>]

TxtNamedImage ==
  [name |-> <<"i", ".", "t", "x", "t">>, type |-> <<"i", "m", "a", "g", "e", "/", "g", "i", "f">>, size |-> 1,
   base64 |-> <<"R", "w", "=", "=">>, text |-> <<"G">>]

UnknownFile ==
  [name |-> <<"u", ".", "m", "d", "x">>, type |-> <<>>, size |-> 1,
   base64 |-> <<"e", "A", "=", "=">>, text |-> <<"x">>]

DroppedFiles == Files \cup {PlainFile, JsonFile, TxtFile, TxtNamedImage, UnknownFile}

DroppedLists == UNION {[1..n -> DroppedFiles] : n \in 1..MaxDrop}

\* FileReader.readAsDataURL and FileReader.readAsText
readAsDataURL(file) ==
  <<"d", "a", "t", "a", ":">> \o file.type \o <<";", "b", "a", "s", "e", "6", "4", ",">> \o file.base64

readAsText(file) == file.text

\* new Date().toISOString() at clock value t (milliseconds), as the seconds
\* and the milliseconds fields of the ISO string, and new Date(iso) back to
\* milliseconds.
toISOString(t) == <<t \div 1000, t % 1000>>

DateOf(iso) == iso[1] * 1000 + iso[2]

\* ------------------------------------------------------------------ state
VARIABLES
  phase,          \* where PastecaseApp.init is: opening, loading, ready, failed
  store,          \* the records of object store "clips", in key order
  nextKey,        \* the key generator of the object store
  now,            \* the clock read by new Date()
  clips,          \* this.clips
  cards,          \* the clip cards in clips-container, in DOM order
  emptyHidden,    \* empty-state carries class "hidden"
  currentSearch,  \* this.currentSearch
  currentFilter,  \* this.currentFilter
  currentSort,    \* this.currentSort
  textModal,      \* text-modal: [open, form]
  imageModal,     \* image-modal: [open, form]
  previewModal,   \* image-preview-modal: [open, id of the clip its buttons act on]
  reads,          \* FileReader reads that have not completed
  dbQueue,        \* IndexedDB requests that have not completed, oldest first
  last            \* the handler step that ran last and the toasts it showed

vars ==
  <<phase, store, nextKey, now, clips, cards, emptyHidden, currentSearch,
    currentFilter, currentSort, textModal, imageModal, previewModal, reads,
    dbQueue, last>>

storeVars == <<store, nextKey>>
viewVars == <<clips, cards, emptyHidden>>
paramVars == <<currentSearch, currentFilter, currentSort>>
modalVars == <<textModal, imageModal, previewModal>>

\* ------------------------------------------------------------------ toasts
\* showSuccess / showError: the toast appended to the document.
\* `detail` is the text a template puts into the message (a file name, a MIME
\* type), empty for a fixed message.
showSuccess(message, detail) ==
  [type |-> "success", message |-> message, detail |-> detail]

showError(message, detail) ==
  [type |-> "error", message |-> message, detail |-> detail]

\* What `last` holds after a step in which a handler came to its end with
\* something to tell: the handler, the clip id it was about (0 when none),
\* whether the last thing it waited for (a validation, a confirmation, a
\* read, a storage request) succeeded, the toasts it showed, and whether it
\* ended in a rejection nothing caught.
Done(op, id, ok, notes, uncaught) ==
  [op |-> op, id |-> id, ok |-> ok, notes |-> notes, uncaught |-> uncaught]

\* What `last` holds after every other step.
Quiet == Done("", 0, TRUE, <<>>, FALSE)

\* ------------------------------------------------------------------ PastecaseDB
Ids(records) == {records[i].id : i \in 1..Len(records)}

\* saveClip builds the record before the request: the caller's fields plus
\* the two timestamps.
StampClip(clipData, t) ==
  [f \in DOMAIN clipData \cup {"createdAt", "updatedAt"} |->
     IF f \in {"createdAt", "updatedAt"} THEN toISOString(t) ELSE clipData[f]]

\* store.add(clip) on a store with keyPath "id" and autoIncrement: the key
\* generator's current number becomes the record's id.
AddRecord(clip, key) ==
  [f \in DOMAIN clip \cup {"id"} |-> IF f = "id" THEN key ELSE clip[f]]

\* store.delete(id), had it taken the key for a position in the store.
DeleteRecordAt(records, id) ==
  IF id \in 1..Len(records)
  THEN SubSeq(records, 1, id - 1) \o SubSeq(records, id + 1, Len(records))
  ELSE records

\* store.delete(id), had it blanked the record and kept it in the store.
DeleteRecordBlanked(records, id) ==
  [i \in 1..Len(records) |->
     IF records[i].id = id THEN [records[i] EXCEPT !.content = <<>>] ELSE records[i]]

\* store.delete(id): removes the record with that key, if there is one.
DeleteRecord(records, id) ==
  LET Other(r) == r.id # id IN SelectSeq(records, Other)

\* The test with the query taken as typed, not lower-cased.
matchesQueryAsTyped(clip, query) ==
  \/ includes(toLowerCase(clip.content), query)
  \/ /\ clip.memo # <<>>
     /\ includes(toLowerCase(clip.memo), query)
  \/ \E i \in 1..Len(clip.tags) :
       includes(toLowerCase(clip.tags[i]), query)

\* The test of searchClips and of the search filter of renderClips.
matchesQuery(clip, query) ==
  \/ includes(toLowerCase(clip.content), toLowerCase(query))
  \/ /\ clip.memo # <<>>
     /\ includes(toLowerCase(clip.memo), toLowerCase(query))
  \/ \E i \in 1..Len(clip.tags) :
       includes(toLowerCase(clip.tags[i]), toLowerCase(query))

\* searchClips(query, type) over the result of getAllClips; type "" stands
\* for the default null.
searchClips(records, query, type) ==
  LET Keep(clip) ==
        /\ type = "" \/ clip.type = type
        /\ query = <<>> \/ matchesQuery(clip, query)
  IN SelectSeq(records, Keep)

\* ------------------------------------------------------------------ renderClips
\* The comparator, had it not looked at the sort order.
compareClipsOldest(a, b, order) ==
  DateOf(a.createdAt) - DateOf(b.createdAt)

\* The comparator given to sort.
compareClips(a, b, order) ==
  IF order = "newest"
  THEN DateOf(b.createdAt) - DateOf(a.createdAt)
  ELSE DateOf(a.createdAt) - DateOf(b.createdAt)

\* Array.prototype.sort is stable: an element goes behind every element that
\* does not compare greater than it.
RECURSIVE insertSorted(_, _, _)
insertSorted(sorted, x, order) ==
  IF sorted = <<>> THEN <<x>>
  ELSE IF compareClips(sorted[Len(sorted)], x, order) <= 0
       THEN Append(sorted, x)
       ELSE Append(insertSorted(SubSeq(sorted, 1, Len(sorted) - 1), x, order),
                   sorted[Len(sorted)])

RECURSIVE sortFrom(_, _, _)
sortFrom(arr, sorted, order) ==
  IF arr = <<>> THEN sorted
  ELSE sortFrom(Tail(arr), insertSorted(sorted, Head(arr), order), order)

\* Array.prototype.sort, had it not been stable: elements that compare equal
\* come out in the reverse of the order they went in.
sortReversingTies(arr, order) ==
  sortFrom([i \in 1..Len(arr) |-> arr[Len(arr) + 1 - i]], <<>>, order)


sort(arr, order) == sortFrom(arr, <<>>, order)

searchFilter(arr, search) ==
  LET Keep(clip) == matchesQuery(clip, search)
  IN IF search # <<>> THEN SelectSeq(arr, Keep) ELSE arr

\* The category filter with its test the wrong way round.
categoryFilterOthers(arr, category) ==
  LET Keep(clip) == clip.type # category
  IN IF category # "" THEN SelectSeq(arr, Keep) ELSE arr

categoryFilter(arr, category) ==
  LET Keep(clip) == clip.type = category
  IN IF category # "" THEN SelectSeq(arr, Keep) ELSE arr

\* renderClips, had it left the empty state hidden whatever it found.
renderClipsEmptyStateHidden(list, search, category, order) ==
  LET filteredClips == sort(categoryFilter(searchFilter(list, search), category), order)
  IN [cards |-> filteredClips,
      emptyHidden |-> TRUE,
      clips |-> IF search = <<>> /\ category = "" THEN filteredClips ELSE list]


\* renderClips: the cards, the state of empty-state, and this.clips, which
\* sort reorders when neither filter made a copy of it.
renderClips(list, search, category, order) ==
  LET filteredClips == sort(categoryFilter(searchFilter(list, search), category), order)
  IN [cards |-> filteredClips,
      emptyHidden |-> filteredClips # <<>>,
      clips |-> IF search = <<>> /\ category = "" THEN filteredClips ELSE list]

Render(list) ==
  LET r == renderClips(list, currentSearch', currentFilter', currentSort')
  IN /\ cards' = r.cards
     /\ emptyHidden' = r.emptyHidden
     /\ clips' = r.clips

\* ------------------------------------------------------------------ requests
\* A pending IndexedDB request: what is asked of the store (add, delete,
\* getAll), the handler that awaits it, and the request's argument.
Request(req, op, arg) == [req |-> req, op |-> op, arg |-> arg]

\* The argument of a request: the clip id and the file name its handler
\* works on (0 and the empty string when it has none).
Arg(id, name) == [id |-> id, name |-> name]

\* A pending FileReader read: the handler whose onload awaits it and what
\* the onload closure captured.
Read(op, file, tags, memo) ==
  [op |-> op, file |-> file, tags |-> tags, memo |-> memo]

RemoveAt(seq, i) == SubSeq(seq, 1, i - 1) \o SubSeq(seq, i + 1, Len(seq))

InFlight == Len(reads) + Len(dbQueue)

\* Reads and add requests under way: each can still take a key.
PendingSaves ==
  Len(reads) + Cardinality({i \in 1..Len(dbQueue) : dbQueue[i].req = "add"})

\* Room for k more saves within the bounds of the model.
CanStart(k) ==
  /\ InFlight + k <= MaxInFlight
  /\ (nextKey - 1) + PendingSaves + k <= MaxId

\* new Date(): the clock is read; it has not gone back since it was read
\* last.
ReadClock == now' \in {t \in {now, now + 1} : t <= MaxTime}

\* db.saveClip(clipData) up to its request: the record is stamped when the
\* call is made, the add is queued behind the requests made before it.
saveClip(queue, op, clipData, arg) ==
  Append(queue, Request("add", op, [clip |-> StampClip(clipData, now')] @@ arg))

\* loadClips() up to its request.
loadClips(queue, op, arg) == Append(queue, Request("getAll", op, arg))

\* ------------------------------------------------------------------ start
Init ==
  /\ phase = "opening"
  /\ store = <<>>
  /\ nextKey = 1
  /\ now = 1
  /\ clips = <<>>
  /\ cards = <<>>
  /\ emptyHidden \in BOOLEAN
  /\ currentSearch = <<>>
  /\ currentFilter = ""
  /\ currentSort = "newest"
  /\ textModal = [open |-> FALSE, form |-> ClearedTextForm]
  /\ imageModal = [open |-> FALSE, form |-> ClearedImageForm]
  /\ previewModal = [open |-> FALSE, id |-> 0]
  /\ reads = <<>>
  /\ dbQueue = <<>>
  /\ last = Quiet

\* The page is loaded again: a new PastecaseApp over the same database.  The
\* requests of the page that went away are dropped with it.
Reload ==
  /\ phase' = "opening"
  /\ clips' = <<>>
  /\ cards' = <<>>
  /\ emptyHidden' \in BOOLEAN
  /\ currentSearch' = <<>>
  /\ currentFilter' = ""
  /\ currentSort' = "newest"
  /\ textModal' = [open |-> FALSE, form |-> ClearedTextForm]
  /\ imageModal' = [open |-> FALSE, form |-> ClearedImageForm]
  /\ previewModal' = [open |-> FALSE, id |-> 0]
  /\ reads' = <<>>
  /\ dbQueue' = <<>>
  /\ last' = Quiet
  /\ UNCHANGED <<store, nextKey, now>>

\* init: indexedDB.open succeeds; loadClips asks for all records.
OpenSucceed ==
  /\ phase = "opening"
  /\ phase' = "loading"
  /\ dbQueue' = loadClips(dbQueue, "init", Arg(0, <<>>))
  /\ last' = Quiet
  /\ UNCHANGED <<storeVars, now, viewVars, paramVars, modalVars, reads>>

\* init: indexedDB.open fails; the catch of init reports it and bindEvents
\* is never reached.
OpenFail ==
  /\ phase = "opening"
  /\ phase' = "failed"
  /\ last' = Done("init", 0, FALSE,
                  <<showError("Failed to initialize the application", <<>>)>>, FALSE)
  /\ UNCHANGED <<storeVars, now, viewVars, paramVars, modalVars, reads, dbQueue>>

\* ------------------------------------------------------------------ modals
\* showTextModal (the Add Text button, Ctrl+Shift+1)
ShowTextModal ==
  /\ phase = "ready"
  /\ textModal' = [textModal EXCEPT !.open = TRUE]
  /\ last' = Quiet
  /\ UNCHANGED <<phase, storeVars, now, viewVars, paramVars, imageModal, previewModal,
               reads, dbQueue>>

\* hideTextModal
hideTextModal == [open |-> FALSE, form |-> ClearedTextForm]

\* hideImageModal
hideImageModal == [open |-> FALSE, form |-> ClearedImageForm]

\* hideImagePreview: the modal is hidden and its two buttons lose their
\* handlers.
hideImagePreview == [open |-> FALSE, id |-> 0]

\* The Cancel button of the text modal, or a click outside it.
HideTextModal ==
  /\ phase = "ready"
  /\ textModal.open
  /\ textModal' = hideTextModal
  /\ last' = Quiet
  /\ UNCHANGED <<phase, storeVars, now, viewVars, paramVars, imageModal, previewModal,
               reads, dbQueue>>

\* The user fills in the fields of the open text modal.
TypeText ==
  /\ phase = "ready"
  /\ textModal.open
  /\ \E form \in TextForms : textModal' = [textModal EXCEPT !.form = form]
  /\ last' = Quiet
  /\ UNCHANGED <<phase, storeVars, now, viewVars, paramVars, imageModal, previewModal,
               reads, dbQueue>>

\* showImageModal (the Add Image button, Ctrl+Shift+2)
ShowImageModal ==
  /\ phase = "ready"
  /\ imageModal' = [imageModal EXCEPT !.open = TRUE]
  /\ last' = Quiet
  /\ UNCHANGED <<phase, storeVars, now, viewVars, paramVars, textModal, previewModal,
               reads, dbQueue>>

\* The Cancel button of the image modal, had it also ended the read under
\* way.
HideImageModalAborting ==
  /\ phase = "ready"
  /\ imageModal.open
  /\ imageModal' = hideImageModal
  /\ reads' = <<>>
  /\ last' = Quiet
  /\ UNCHANGED <<phase, storeVars, now, viewVars, paramVars, textModal, previewModal,
               dbQueue>>


\* The Cancel button of the image modal, or a click outside it.
HideImageModal ==
  /\ phase = "ready"
  /\ imageModal.open
  /\ imageModal' = hideImageModal
  /\ last' = Quiet
  /\ UNCHANGED <<phase, storeVars, now, viewVars, paramVars, textModal, previewModal,
               reads, dbQueue>>

\* The user picks a file and fills in the fields of the open image modal.
ChooseImage ==
  /\ phase = "ready"
  /\ imageModal.open
  /\ \E form \in ImageForms : imageModal' = [imageModal EXCEPT !.form = form]
  /\ last' = Quiet
  /\ UNCHANGED <<phase, storeVars, now, viewVars, paramVars, textModal, previewModal,
               reads, dbQueue>>

\* handleKeyboard, key Escape, had it left hideImagePreview out.
EscapeLeavingPreview ==
  /\ phase = "ready"
  /\ textModal' = hideTextModal
  /\ imageModal' = hideImageModal
  /\ last' = Quiet
  /\ UNCHANGED <<phase, storeVars, now, viewVars, paramVars, previewModal, reads, dbQueue>>

\* handleKeyboard, key Escape
Escape ==
  /\ phase = "ready"
  /\ textModal' = hideTextModal
  /\ imageModal' = hideImageModal
  /\ previewModal' = hideImagePreview
  /\ last' = Quiet
  /\ UNCHANGED <<phase, storeVars, now, viewVars, paramVars, reads, dbQueue>>

\* handleSearch, had it also reset the category.
handleSearchResettingFilter(query) ==
  /\ phase = "ready"
  /\ currentSearch' = query
  /\ currentFilter' = ""
  /\ UNCHANGED currentSort
  /\ Render(clips)
  /\ last' = Quiet
  /\ UNCHANGED <<phase, storeVars, now, modalVars, reads, dbQueue>>


\* ------------------------------------------------------------------ view parameters
handleSearch(query) ==
  /\ phase = "ready"
  /\ currentSearch' = query
  /\ UNCHANGED <<currentFilter, currentSort>>
  /\ Render(clips)
  /\ last' = Quiet
  /\ UNCHANGED <<phase, storeVars, now, modalVars, reads, dbQueue>>

HandleSearch == \E query \in Queries : handleSearch(query)

HandleFilter ==
  /\ phase = "ready"
  /\ \E category \in Categories : currentFilter' = category
  /\ UNCHANGED <<currentSearch, currentSort>>
  /\ Render(clips)
  /\ last' = Quiet
  /\ UNCHANGED <<phase, storeVars, now, modalVars, reads, dbQueue>>

HandleSort ==
  /\ phase = "ready"
  /\ \E order \in SortOrders : currentSort' = order
  /\ UNCHANGED <<currentSearch, currentFilter>>
  /\ Render(clips)
  /\ last' = Quiet
  /\ UNCHANGED <<phase, storeVars, now, modalVars, reads, dbQueue>>

\* ------------------------------------------------------------------ save
\* The clip data saveTextClip builds from the fields of the text modal.
textClipData(form) ==
  [type |-> "text", content |-> trim(form.content), tags |-> parseTags(form.tags),
   memo |-> trim(form.memo), mimeType |-> <<"t", "e", "x", "t", "/", "p", "l", "a", "i", "n">>]

\* saveTextClip with empty content, had the branch of the toast no return.
SaveTextClipNoReturn ==
  /\ phase = "ready"
  /\ textModal.open
  /\ trim(textModal.form.content) = <<>>
  /\ CanStart(1)
  /\ ReadClock
  /\ dbQueue' = saveClip(dbQueue, "saveTextClip", textClipData(textModal.form), Arg(0, <<>>))
  /\ last' = Done("saveTextClip", 0, FALSE,
                  <<showError("Please enter some text", <<>>)>>, FALSE)
  /\ UNCHANGED <<phase, storeVars, viewVars, paramVars, modalVars, reads>>

\* saveTextClip with empty content: a toast and nothing else.
SaveTextClipInvalid ==
  /\ phase = "ready"
  /\ textModal.open
  /\ trim(textModal.form.content) = <<>>
  /\ last' = Done("saveTextClip", 0, FALSE,
                  <<showError("Please enter some text", <<>>)>>, FALSE)
  /\ UNCHANGED <<phase, storeVars, now, viewVars, paramVars, modalVars, reads, dbQueue>>

\* saveTextClip up to await db.saveClip
SaveTextClip ==
  /\ phase = "ready"
  /\ textModal.open
  /\ trim(textModal.form.content) # <<>>
  /\ CanStart(1)
  /\ ReadClock
  /\ dbQueue' = saveClip(dbQueue, "saveTextClip", textClipData(textModal.form), Arg(0, <<>>))
  /\ last' = Quiet
  /\ UNCHANGED <<phase, storeVars, viewVars, paramVars, modalVars, reads>>

\* saveImageClip with no file chosen: a toast and nothing else.
SaveImageClipInvalid ==
  /\ phase = "ready"
  /\ imageModal.open
  /\ imageModal.form.file = NoFile
  /\ last' = Done("saveImageClip", 0, FALSE,
                  <<showError("Please select an image file", <<>>)>>, FALSE)
  /\ UNCHANGED <<phase, storeVars, now, viewVars, paramVars, modalVars, reads, dbQueue>>

\* saveImageClip up to reader.readAsDataURL(file): tags and memo are read
\* from the fields now and kept by the onload closure.
SaveImageClip ==
  /\ phase = "ready"
  /\ imageModal.open
  /\ imageModal.form.file # NoFile
  /\ CanStart(1)
  /\ reads' = Append(reads, Read("saveImageClip", imageModal.form.file,
                                 parseTags(imageModal.form.tags),
                                 trim(imageModal.form.memo)))
  /\ last' = Quiet
  /\ UNCHANGED <<phase, storeVars, now, viewVars, paramVars, modalVars, dbQueue>>

\* ------------------------------------------------------------------ delete, copy, download
\* deleteClip(id) with confirm() answered no, had it gone on all the same.
DeleteClipUnconfirmed ==
  /\ phase = "ready"
  /\ InFlight + 1 <= MaxInFlight
  /\ \E id \in Ids(cards) :
       /\ dbQueue' = Append(dbQueue, Request("delete", "deleteClip", Arg(id, <<>>)))
       /\ last' = Done("deleteClip", id, FALSE, <<>>, FALSE)
  /\ UNCHANGED <<phase, storeVars, now, viewVars, paramVars, modalVars, reads>>

\* deleteClip(id) from a card's Delete button, confirm() answered no.
DeleteClipDeclined ==
  /\ phase = "ready"
  /\ \E id \in Ids(cards) :
       last' = Done("deleteClip", id, FALSE, <<>>, FALSE)
  /\ UNCHANGED <<phase, storeVars, now, viewVars, paramVars, modalVars, reads, dbQueue>>

\* deleteClip(id) from a card's Delete button, confirm() answered yes, up to
\* await db.deleteClip
DeleteClip ==
  /\ phase = "ready"
  /\ InFlight + 1 <= MaxInFlight
  /\ \E id \in Ids(cards) :
       /\ dbQueue' = Append(dbQueue, Request("delete", "deleteClip", Arg(id, <<>>)))
       /\ last' = Quiet
  /\ UNCHANGED <<phase, storeVars, now, viewVars, paramVars, modalVars, reads>>

\* copyToClipboard from the Copy button of a text card; the clipboard write
\* succeeds or fails.
CopyToClipboard ==
  /\ phase = "ready"
  /\ \E i \in 1..Len(cards) :
       /\ cards[i].type = "text"
       /\ \/ last' = Done("copyToClipboard", cards[i].id, TRUE,
                          <<showSuccess("Copied to clipboard successfully", <<>>)>>, FALSE)
          \/ last' = Done("copyToClipboard", cards[i].id, FALSE,
                          <<showError("Failed to copy to clipboard", <<>>)>>, FALSE)
  /\ UNCHANGED <<phase, storeVars, now, viewVars, paramVars, modalVars, reads, dbQueue>>

\* downloadImage from the Download button of an image card.
DownloadImage ==
  /\ phase = "ready"
  /\ \E i \in 1..Len(cards) :
       /\ cards[i].type = "image"
       /\ last' = Done("downloadImage", cards[i].id, TRUE,
                       <<showSuccess("Image downloaded successfully", <<>>)>>, FALSE)
  /\ UNCHANGED <<phase, storeVars, now, viewVars, paramVars, modalVars, reads, dbQueue>>

\* ------------------------------------------------------------------ image preview
\* showImagePreview(clip) from a click on the image of an image card: the
\* two buttons of the preview get handlers that hold the clip.
ShowImagePreview ==
  /\ phase = "ready"
  /\ \E i \in 1..Len(cards) :
       /\ cards[i].type = "image"
       /\ previewModal' = [open |-> TRUE, id |-> cards[i].id]
  /\ last' = Quiet
  /\ UNCHANGED <<phase, storeVars, now, viewVars, paramVars, textModal, imageModal,
               reads, dbQueue>>

\* The close button of the preview, or a click outside it.
HideImagePreview ==
  /\ phase = "ready"
  /\ previewModal.open
  /\ previewModal' = hideImagePreview
  /\ last' = Quiet
  /\ UNCHANGED <<phase, storeVars, now, viewVars, paramVars, textModal, imageModal,
               reads, dbQueue>>

\* downloadBtn.onclick: downloadImage, then hideImagePreview.
PreviewDownload ==
  /\ phase = "ready"
  /\ previewModal.open
  /\ previewModal' = hideImagePreview
  /\ last' = Done("downloadImage", previewModal.id, TRUE,
                  <<showSuccess("Image downloaded successfully", <<>>)>>, FALSE)
  /\ UNCHANGED <<phase, storeVars, now, viewVars, paramVars, textModal, imageModal,
               reads, dbQueue>>

\* deleteBtn.onclick, its confirm() answered no: nothing is called.
PreviewDeleteDeclined ==
  /\ phase = "ready"
  /\ previewModal.open
  /\ last' = Done("previewDelete", previewModal.id, FALSE, <<>>, FALSE)
  /\ UNCHANGED <<phase, storeVars, now, viewVars, paramVars, modalVars, reads, dbQueue>>

\* deleteBtn.onclick, its confirm() answered yes: deleteClip(clip.id) asks
\* its own confirm(), here answered no, and returns; hideImagePreview runs.
PreviewDeleteThenDeclined ==
  /\ phase = "ready"
  /\ previewModal.open
  /\ previewModal' = hideImagePreview
  /\ last' = Done("deleteClip", previewModal.id, FALSE, <<>>, FALSE)
  /\ UNCHANGED <<phase, storeVars, now, viewVars, paramVars, textModal, imageModal,
               reads, dbQueue>>

\* deleteBtn.onclick, its confirm() answered yes: deleteClip(clip.id) asks
\* its own confirm(), here answered yes, and runs up to await
\* db.deleteClip; hideImagePreview runs without waiting for it.
PreviewDelete ==
  /\ phase = "ready"
  /\ previewModal.open
  /\ InFlight + 1 <= MaxInFlight
  /\ dbQueue' = Append(dbQueue, Request("delete", "deleteClip", Arg(previewModal.id, <<>>)))
  /\ previewModal' = hideImagePreview
  /\ last' = Quiet
  /\ UNCHANGED <<phase, storeVars, now, viewVars, paramVars, textModal, imageModal, reads>>

\* ------------------------------------------------------------------ drop
\* The two tests of processDroppedFile.
isImageFile(file) == startsWith(file.type, <<"i", "m", "a", "g", "e", "/">>)

isTextFile(file) ==
  \/ startsWith(file.type, <<"t", "e", "x", "t", "/">>)
  \/ file.type = <<"a", "p", "p", "l", "i", "c", "a", "t", "i", "o", "n", "/", "j", "s", "o", "n">>
  \/ endsWith(file.name, <<".", "t", "x", "t">>)
  \/ endsWith(file.name, <<".", "m", "d">>)

\* processDroppedFile with the two tests in the other order.
droppedReadTextFirst(file) ==
  IF isTextFile(file)
  THEN <<Read("dropText", file, <<<<"d", "r", "o", "p", "p", "e", "d", "-", "f", "i", "l", "e">>, <<"t", "e", "x", "t", "-", "f", "i", "l", "e">>>>,
              <<"D", "r", "o", "p", "p", "e", "d", " ", "f", "i", "l", "e", ":", " ">> \o file.name)>>
  ELSE IF isImageFile(file)
  THEN <<Read("dropImage", file, <<<<"d", "r", "o", "p", "p", "e", "d", "-", "f", "i", "l", "e">>>>,
              <<"D", "r", "o", "p", "p", "e", "d", " ", "i", "m", "a", "g", "e", ":", " ">> \o file.name)>>
  ELSE <<>>

\* processDroppedFile up to its return: the read it starts, if any.
droppedRead(file) ==
  IF isImageFile(file)
  THEN <<Read("dropImage", file, <<<<"d", "r", "o", "p", "p", "e", "d", "-", "f", "i", "l", "e">>>>,
              <<"D", "r", "o", "p", "p", "e", "d", " ", "i", "m", "a", "g", "e", ":", " ">> \o file.name)>>
  ELSE IF isTextFile(file)
  THEN <<Read("dropText", file, <<<<"d", "r", "o", "p", "p", "e", "d", "-", "f", "i", "l", "e">>, <<"t", "e", "x", "t", "-", "f", "i", "l", "e">>>>,
              <<"D", "r", "o", "p", "p", "e", "d", " ", "f", "i", "l", "e", ":", " ">> \o file.name)>>
  ELSE <<>>

\* processDroppedFile up to its return: the toast it shows, if any.
droppedNote(file) ==
  IF isImageFile(file) \/ isTextFile(file) THEN <<>>
  ELSE <<showError("Unsupported file type",
                   IF file.type # <<>> THEN file.type ELSE <<"u", "n", "k", "n", "o", "w", "n">>)>>

\* The loop of handleDrop, had it ended at the first file it cannot take.
RECURSIVE dropReadsStopping(_)
dropReadsStopping(files) ==
  IF files = <<>> \/ droppedRead(Head(files)) = <<>> THEN <<>>
  ELSE droppedRead(Head(files)) \o dropReadsStopping(Tail(files))

\* handleDrop: the loop over the dropped files.  processDroppedFile returns
\* as soon as it has started the read, so the loop runs through in one go.
RECURSIVE dropReads(_)
dropReads(files) ==
  IF files = <<>> THEN <<>> ELSE droppedRead(Head(files)) \o dropReads(Tail(files))

RECURSIVE dropNotes(_)
dropNotes(files) ==
  IF files = <<>> THEN <<>> ELSE droppedNote(Head(files)) \o dropNotes(Tail(files))

handleDrop(files) ==
  /\ phase = "ready"
  /\ CanStart(Len(dropReads(files)))
  /\ reads' = reads \o dropReads(files)
  /\ last' = IF dropNotes(files) = <<>> THEN Quiet
             ELSE Done("handleDrop", 0, FALSE, dropNotes(files), FALSE)
  /\ UNCHANGED <<phase, storeVars, now, viewVars, paramVars, modalVars, dbQueue>>

HandleDrop == \E files \in DropLists : handleDrop(files)

\* ------------------------------------------------------------------ FileReader
\* The clip data the onload handler of a read builds.
readClipData(read) ==
  IF read.op = "saveImageClip"
  THEN [type |-> "image", content |-> readAsDataURL(read.file), tags |-> read.tags,
        memo |-> read.memo, filename |-> read.file.name, filesize |-> read.file.size,
        mimeType |-> read.file.type]
  ELSE IF read.op = "dropImage"
  THEN [type |-> "image", content |-> readAsDataURL(read.file), tags |-> read.tags,
        memo |-> read.memo, filename |-> read.file.name, filesize |-> read.file.size,
        mimeType |-> read.file.type]
  ELSE [type |-> "text", content |-> readAsText(read.file), tags |-> read.tags,
        memo |-> read.memo, filename |-> read.file.name, filesize |-> read.file.size,
        mimeType |-> read.file.type]

\* A read completes: reader.onload runs up to await db.saveClip.
ReadSucceed ==
  /\ ReadClock
  /\ \E i \in 1..Len(reads) :
       /\ reads' = RemoveAt(reads, i)
       /\ dbQueue' = saveClip(dbQueue, reads[i].op, readClipData(reads[i]),
                              Arg(0, reads[i].file.name))
       /\ last' = Quiet
  /\ UNCHANGED <<phase, storeVars, viewVars, paramVars, modalVars>>

\* A read fails: no reader has an onerror handler, so nothing runs.
ReadFail ==
  /\ \E i \in 1..Len(reads) :
       /\ reads' = RemoveAt(reads, i)
       /\ last' = Done(reads[i].op, 0, FALSE, <<>>, FALSE)
  /\ UNCHANGED <<phase, storeVars, now, viewVars, paramVars, modalVars, dbQueue>>

\* ------------------------------------------------------------------ IndexedDB
\* The request the store works on: requests on one object store complete in
\* the order they were made.
head == Head(dbQueue)

\* store.add succeeds, had the key been the number of records plus one.
DbAddSucceedByCount ==
  /\ dbQueue # <<>>
  /\ head.req = "add"
  /\ store' = Append(store, AddRecord(head.arg.clip, Len(store) + 1))
  /\ nextKey' = nextKey + 1
  /\ dbQueue' = loadClips(Tail(dbQueue), head.op, Arg(Len(store) + 1, head.arg.name))
  /\ last' = Quiet
  /\ UNCHANGED <<phase, now, viewVars, paramVars, modalVars, reads>>

\* store.add succeeds: the record gets the generator's key; the awaiting
\* handler goes on to loadClips.
DbAddSucceed ==
  /\ dbQueue # <<>>
  /\ head.req = "add"
  /\ store' = Append(store, AddRecord(head.arg.clip, nextKey))
  /\ nextKey' = nextKey + 1
  /\ dbQueue' = loadClips(Tail(dbQueue), head.op, Arg(nextKey, head.arg.name))
  /\ last' = Quiet
  /\ UNCHANGED <<phase, now, viewVars, paramVars, modalVars, reads>>

\* store.add fails, had the catch of the save handlers also closed their
\* modal.
DbAddFailClosing ==
  /\ dbQueue # <<>>
  /\ head.req = "add"
  /\ dbQueue' = Tail(dbQueue)
  /\ textModal' = IF head.op = "saveTextClip" THEN hideTextModal ELSE textModal
  /\ imageModal' = IF head.op = "saveImageClip" THEN hideImageModal ELSE imageModal
  /\ last' = IF head.op \in {"saveTextClip", "saveImageClip"}
             THEN Done(head.op, 0, FALSE,
                       <<showError("Failed to save clip", <<>>)>>, FALSE)
             ELSE Done(head.op, 0, FALSE, <<>>, TRUE)
  /\ UNCHANGED <<phase, storeVars, now, viewVars, paramVars, previewModal, reads>>


\* store.add fails: saveTextClip and saveImageClip catch the rejection and
\* show a toast; the onload handlers of processDroppedFile have no catch.
DbAddFail ==
  /\ dbQueue # <<>>
  /\ head.req = "add"
  /\ dbQueue' = Tail(dbQueue)
  /\ last' = IF head.op \in {"saveTextClip", "saveImageClip"}
             THEN Done(head.op, 0, FALSE,
                       <<showError("Failed to save clip", <<>>)>>, FALSE)
             ELSE Done(head.op, 0, FALSE, <<>>, TRUE)
  /\ UNCHANGED <<phase, storeVars, now, viewVars, paramVars, modalVars, reads>>

\* store.delete succeeds, whether or not a record had the key; deleteClip
\* goes on to loadClips.
DbDeleteSucceed ==
  /\ dbQueue # <<>>
  /\ head.req = "delete"
  /\ store' = DeleteRecord(store, head.arg.id)
  /\ dbQueue' = loadClips(Tail(dbQueue), head.op, head.arg)
  /\ last' = Quiet
  /\ UNCHANGED <<phase, nextKey, now, viewVars, paramVars, modalVars, reads>>

\* store.delete fails: deleteClip catches the rejection.
DbDeleteFail ==
  /\ dbQueue # <<>>
  /\ head.req = "delete"
  /\ dbQueue' = Tail(dbQueue)
  /\ last' = Done(head.op, head.arg.id, FALSE,
                  <<showError("Failed to delete clip", <<>>)>>, FALSE)
  /\ UNCHANGED <<phase, storeVars, now, viewVars, paramVars, modalVars, reads>>

\* The toast a handler shows after loadClips and renderClips; init shows
\* none.
doneNote(op, name) ==
  CASE op = "saveTextClip" -> <<showSuccess("Text clip saved successfully", <<>>)>>
    [] op = "saveImageClip" -> <<showSuccess("Image clip saved successfully", <<>>)>>
    [] op = "deleteClip" -> <<showSuccess("Clip deleted successfully", <<>>)>>
    [] op = "dropImage" -> <<showSuccess("Image added successfully", name)>>
    [] op = "dropText" -> <<showSuccess("Text file added successfully", name)>>
    [] OTHER -> <<>>

\* What follows await loadClips() in the handler that waits for the head
\* request: renderClips on the list loadClips left, then the handler's own
\* last statements.  `loadNotes` is what loadClips itself showed.
AfterLoad(list, ok, loadNotes) ==
  /\ dbQueue' = Tail(dbQueue)
  /\ UNCHANGED paramVars
  /\ Render(list)
  /\ phase' = IF head.op = "init" THEN "ready" ELSE phase
  /\ textModal' = IF head.op = "saveTextClip" THEN hideTextModal ELSE textModal
  /\ imageModal' = IF head.op = "saveImageClip" THEN hideImageModal ELSE imageModal
  /\ UNCHANGED previewModal
  /\ last' = Done(head.op, head.arg.id, ok,
                  loadNotes \o doneNote(head.op, head.arg.name), FALSE)
  /\ UNCHANGED <<storeVars, now, reads>>

\* store.getAll succeeds, had it been asked for one record at most.
DbGetAllSucceedOne ==
  /\ dbQueue # <<>>
  /\ head.req = "getAll"
  /\ AfterLoad(IF store = <<>> THEN <<>> ELSE <<store[1]>>, TRUE, <<>>)

\* store.getAll succeeds: this.clips becomes the records in key order.
DbGetAllSucceed ==
  /\ dbQueue # <<>>
  /\ head.req = "getAll"
  /\ AfterLoad(store, TRUE, <<>>)

\* store.getAll fails: loadClips catches the rejection, shows a toast and
\* leaves this.clips as it was; the caller goes on as after a success.
DbGetAllFail ==
  /\ dbQueue # <<>>
  /\ head.req = "getAll"
  /\ AfterLoad(clips, FALSE, <<showError("Failed to load data", <<>>)>>)

\* ------------------------------------------------------------------ specification
\* The user's gestures the model follows.  The composers (the two modals and
\* drag and drop) and the image preview are used one at a time and with the
\* view parameters at their defaults; the view parameters are changed, and the gestures that end
\* in a toast and touch nothing else (a declined delete, copy, download) are
\* made, on a page with nothing under way.
DefaultView ==
  currentSearch = <<>> /\ currentFilter = "" /\ currentSort = "newest"

NotComposing ==
  ~textModal.open /\ ~imageModal.open /\ ~previewModal.open /\ PendingSaves = 0

Idle == NotComposing /\ InFlight = 0

Next ==
  \/ Reload
  \/ OpenSucceed
  \/ OpenFail
  \/ DefaultView /\ ~imageModal.open /\ ~previewModal.open /\ ShowTextModal
  \/ HideTextModal
  \/ TypeText
  \/ DefaultView /\ ~textModal.open /\ ~previewModal.open /\ ShowImageModal
  \/ HideImageModal
  \/ ChooseImage
  \/ Escape
  \/ Idle /\ HandleSearch
  \/ Idle /\ HandleFilter
  \/ Idle /\ HandleSort
  \/ SaveTextClipInvalid
  \/ SaveTextClip
  \/ SaveImageClipInvalid
  \/ SaveImageClip
  \/ Idle /\ DeleteClipDeclined
  \/ ~previewModal.open /\ DeleteClip
  \/ Idle /\ CopyToClipboard
  \/ Idle /\ DownloadImage
  \/ DefaultView /\ Idle /\ ShowImagePreview
  \/ HideImagePreview
  \/ PreviewDownload
  \/ PreviewDeleteDeclined
  \/ PreviewDeleteThenDeclined
  \/ PreviewDelete
  \/ DefaultView /\ NotComposing /\ HandleDrop
  \/ ReadSucceed
  \/ ReadFail
  \/ DbAddSucceed
  \/ DbAddFail
  \/ DbDeleteSucceed
  \/ DbDeleteFail
  \/ DbGetAllSucceed
  \/ DbGetAllFail

Spec == Init /\ [][Next]_vars

\* The same with every file read and every storage request under way
\* completing in the end, with success or with an error: the FileReader and
\* IndexedDB fire one of their events for each.
SpecLive ==
  /\ Spec
  /\ WF_vars(ReadSucceed \/ ReadFail)
  /\ WF_vars(DbAddSucceed \/ DbAddFail \/ DbDeleteSucceed \/ DbDeleteFail
               \/ DbGetAllSucceed \/ DbGetAllFail)

\* ------------------------------------------------------------------ the view derivation alone
\* The clip data the text modal, the image modal and a dropped text file
\* produce from the inputs above.
ClipKinds ==
  {textClipData(form) : form \in {f \in TextForms : trim(f.content) # <<>>}}
  \cup {readClipData(Read("saveImageClip", form.file, parseTags(form.tags), trim(form.memo))) :
          form \in {f \in ImageForms : f.file # NoFile}}
  \cup {readClipData(droppedRead(file)[1]) :
          file \in {f \in Files : ~isImageFile(f) /\ isTextFile(f)}}

\* The lists getAllClips can return: ids rise along the list, and creation
\* times do not fall, since adds are stamped and stored in the order they
\* are made.
StoredLists ==
  UNION {
    { [i \in 1..n |-> AddRecord(StampClip(kinds[i], stamps[i]), i)] :
        kinds \in [1..n -> ClipKinds],
        stamps \in {t \in [1..n -> 1..MaxStamp] : \A i \in 1..(n - 1) : t[i] <= t[i + 1]} } :
    n \in 0..MaxList }

\* A page that has loaded one of these lists: init has run through, nothing
\* is under way.
InitView ==
  /\ phase = "ready"
  /\ store \in StoredLists
  /\ nextKey = Len(store) + 1
  /\ now = MaxStamp
  /\ currentSearch = <<>>
  /\ currentFilter = ""
  /\ currentSort = "newest"
  /\ clips = renderClips(store, <<>>, "", "newest").clips
  /\ cards = renderClips(store, <<>>, "", "newest").cards
  /\ emptyHidden = renderClips(store, <<>>, "", "newest").emptyHidden
  /\ textModal = hideTextModal
  /\ imageModal = hideImageModal
  /\ previewModal = hideImagePreview
  /\ reads = <<>>
  /\ dbQueue = <<>>
  /\ last = Done("init", 0, TRUE, <<>>, FALSE)

NextView ==
  \/ \E query \in SearchTexts : handleSearch(query)
  \/ HandleFilter
  \/ HandleSort

SpecView == InitView /\ [][NextView]_vars

\* ------------------------------------------------------------------ drag and drop alone
\* A page that has loaded the empty store, and on it only drops and what
\* follows them when every read and every storage request succeeds.
InitDrop ==
  /\ phase = "ready"
  /\ store = <<>>
  /\ nextKey = 1
  /\ now = 1
  /\ currentSearch = <<>>
  /\ currentFilter = ""
  /\ currentSort = "newest"
  /\ clips = <<>>
  /\ cards = <<>>
  /\ emptyHidden = FALSE
  /\ textModal = hideTextModal
  /\ imageModal = hideImageModal
  /\ previewModal = hideImagePreview
  /\ reads = <<>>
  /\ dbQueue = <<>>
  /\ last = Done("init", 0, TRUE, <<>>, FALSE)

NextDrop ==
  \/ \E files \in DroppedLists : handleDrop(files)
  \/ ReadSucceed
  \/ DbAddSucceed
  \/ DbGetAllSucceed

SpecDrop == InitDrop /\ [][NextDrop]_vars

\* The same with one drop and no more: the drop is the first thing that
\* happens on the page.
NextOneDrop ==
  \/ last.op = "init" /\ \E files \in DroppedLists : handleDrop(files)
  \/ ReadSucceed
  \/ DbAddSucceed
  \/ DbGetAllSucceed

SpecOneDrop == InitDrop /\ [][NextOneDrop]_vars

\* ------------------------------------------------------------------ the overlays alone
\* A page that has loaded two clips, and on it only the gestures that open,
\* fill in and close the three overlays, in any combination.
InitModal ==
  /\ phase = "ready"
  /\ store \in {list \in StoredLists : Len(list) = 2}
  /\ nextKey = Len(store) + 1
  /\ now = MaxStamp
  /\ currentSearch = <<>>
  /\ currentFilter = ""
  /\ currentSort = "newest"
  /\ clips = renderClips(store, <<>>, "", "newest").clips
  /\ cards = renderClips(store, <<>>, "", "newest").cards
  /\ emptyHidden = renderClips(store, <<>>, "", "newest").emptyHidden
  /\ textModal = hideTextModal
  /\ imageModal = hideImageModal
  /\ previewModal = hideImagePreview
  /\ reads = <<>>
  /\ dbQueue = <<>>
  /\ last = Done("init", 0, TRUE, <<>>, FALSE)

NextModal ==
  \/ ShowTextModal
  \/ HideTextModal
  \/ TypeText
  \/ ShowImageModal
  \/ HideImageModal
  \/ ChooseImage
  \/ ShowImagePreview
  \/ HideImagePreview
  \/ Escape

SpecModal == InitModal /\ [][NextModal]_vars

\* ------------------------------------------------------------------ properties
\* What the properties say of strings, said without the operators of the
\* model.
AllWhiteSpace(s) == \A i \in 1..Len(s) : IsWhiteSpace(s[i])

\* c is raw without the white space at its two ends.
IsTrimOf(c, raw) ==
  IF AllWhiteSpace(raw) THEN c = <<>>
  ELSE \E i \in 1..Len(raw), j \in 1..Len(raw) :
         /\ i <= j
         /\ ~IsWhiteSpace(raw[i])
         /\ ~IsWhiteSpace(raw[j])
         /\ AllWhiteSpace(SubSeq(raw, 1, i - 1))
         /\ AllWhiteSpace(SubSeq(raw, j + 1, Len(raw)))
         /\ c = SubSeq(raw, i, j)

\* tags holds the pieces of raw between its commas, each without the white
\* space at its ends, the pieces that are empty then left out, in the order
\* of raw.  A piece is named by the position before its first character.
IsTagsOf(tags, raw) ==
  LET commas == {i \in 1..Len(raw) : raw[i] = ","}
      EndOf(p) == CHOOSE e \in commas \cup {Len(raw) + 1} :
                    /\ e > p
                    /\ \A k \in commas : k > p => e <= k
      Piece(p) == SubSeq(raw, p + 1, EndOf(p) - 1)
      kept == {p \in {0} \cup commas : ~AllWhiteSpace(Piece(p))}
  IN /\ Len(tags) = Cardinality(kept)
     /\ \E at \in [1..Len(tags) -> kept] :
          /\ \A i, j \in 1..Len(tags) : i < j => at[i] < at[j]
          /\ \A i \in 1..Len(tags) : IsTrimOf(tags[i], Piece(at[i]))

\* The handler has a read or a storage request under way.
Pending(op) ==
  \/ \E i \in 1..Len(reads) : reads[i].op = op
  \/ \E i \in 1..Len(dbQueue) : dbQueue[i].op = op

\* C1: a saveTextClip whose content field trims to a non-empty string c and
\* whose storage call succeeds adds exactly one record, with type text,
\* content c and the tags field split at commas, each piece trimmed, the
\* empty pieces dropped, in order; the listing that follows returns the
\* records there were plus that one.  In three steps of the handler: the
\* click queues an add of a clip with these fields; the add, when it succeeds,
\* appends that clip under a new id and changes no other record; the listing
\* saveTextClip then awaits returns the store as it is.
C1_SaveTextClipAddsOneRecord ==
  [][ /\ ( /\ textModal.open
           /\ ~AllWhiteSpace(textModal.form.content)
           /\ Len(dbQueue') = Len(dbQueue) + 1
           /\ dbQueue'[Len(dbQueue')].op = "saveTextClip"
           /\ dbQueue'[Len(dbQueue')].req = "add" )
         => LET clip == dbQueue'[Len(dbQueue')].arg.clip
            IN /\ clip.type = "text"
               /\ clip.content # <<>>
               /\ IsTrimOf(clip.content, textModal.form.content)
               /\ IsTagsOf(clip.tags, textModal.form.tags)
      /\ ( /\ dbQueue # <<>>
           /\ head.req = "add"
           /\ head.op = "saveTextClip"
           /\ store' # store )
         => /\ Len(store') = Len(store) + 1
            /\ SubSeq(store', 1, Len(store)) = store
            /\ store'[Len(store')].id \notin Ids(store)
            /\ store'[Len(store')].type = "text"
            /\ store'[Len(store')].content = head.arg.clip.content
            /\ store'[Len(store')].tags = head.arg.clip.tags
            /\ dbQueue'[Len(dbQueue')].req = "getAll"
            /\ dbQueue'[Len(dbQueue')].arg.id = store'[Len(store')].id
      /\ ( /\ dbQueue # <<>>
           /\ head.req = "getAll"
           /\ head.op = "saveTextClip"
           /\ last'.op = "saveTextClip"
           /\ last'.ok )
         => /\ Len(clips') = Len(store)
            /\ Range(clips') = Range(store)
            /\ store' = store
    ]_vars

\* A second text clip has been saved from the fields " Hello " and "a, b",
\* and its handler has run to its end.
C1_Witness ==
  /\ last.op = "saveTextClip"
  /\ last.ok
  /\ last.id = 2
  /\ Len(store) = 2
  /\ store[2].id = 2
  /\ store[2].type = "text"
  /\ store[2].content = <<"H", "e", "l", "l", "o">>
  /\ store[2].tags = << <<"a">>, <<"b">> >>
  /\ Ids(clips) = {1, 2}

\* C2: a validation failure issues no storage call.  While the content field
\* of the text modal is empty or white space, no step queues an add for
\* saveTextClip, and while the image modal has no file chosen, no step starts
\* a read for saveImageClip; the step in which the handler reports (it has
\* nothing under way, so the step is the click) leaves the store, the
\* in-memory list, the view and the requests as they were and shows one
\* error toast.
C2_ValidationFailureNoStorageCall ==
  [][ /\ (textModal.open /\ AllWhiteSpace(textModal.form.content))
         => /\ ~ ( /\ Len(dbQueue') > Len(dbQueue)
                   /\ dbQueue'[Len(dbQueue')].op = "saveTextClip" )
            /\ (~Pending("saveTextClip") /\ last'.op = "saveTextClip")
                 => /\ UNCHANGED <<store, nextKey, clips, cards, dbQueue, reads>>
                    /\ ~last'.ok
                    /\ Len(last'.notes) = 1
                    /\ last'.notes[1].type = "error"
      /\ (imageModal.open /\ imageModal.form.file.size < 0)
         => /\ ~ ( /\ Len(reads') > Len(reads)
                   /\ reads'[Len(reads')].op = "saveImageClip" )
            /\ (~Pending("saveImageClip") /\ last'.op = "saveImageClip")
                 => /\ UNCHANGED <<store, nextKey, clips, cards, dbQueue, reads>>
                    /\ ~last'.ok
                    /\ Len(last'.notes) = 1
                    /\ last'.notes[1].type = "error"
    ]_vars

\* Save has been clicked in the text modal with white space as the content,
\* on a page that holds a clip.
C2_Witness ==
  /\ textModal.open
  /\ textModal.form.content = <<" ", "\n">>
  /\ last.op = "saveTextClip"
  /\ ~last.ok
  /\ last.notes = <<showError("Please enter some text", <<>>)>>
  /\ dbQueue = <<>>
  /\ Len(store) = 1
  /\ Len(clips) = 1

\* C3: a confirmed deleteClip(id) of an id in the store removes exactly that
\* record, every other record stays as it was, and the view deleteClip
\* leaves behind excludes the id.  In two steps of the handler: the delete,
\* when it succeeds, takes that record and no other out of the store; when
\* the handler has come to its end, neither the in-memory list nor the cards
\* hold the id.
C3_ConfirmedDeleteRemovesExactlyThatRecord ==
  [][ /\ ( /\ dbQueue # <<>>
           /\ head.req = "delete"
           /\ head.arg.id \in Ids(store)
           /\ Len(dbQueue') = Len(dbQueue)
           /\ dbQueue'[Len(dbQueue')].req = "getAll" )
         => /\ Ids(store') = Ids(store) \ {head.arg.id}
            /\ Len(store') = Len(store) - 1
            /\ \A i \in 1..Len(store) :
                 store[i].id # head.arg.id => store[i] \in Range(store')
      /\ ( /\ dbQueue # <<>>
           /\ head.req = "getAll"
           /\ head.op = "deleteClip"
           /\ dbQueue' = Tail(dbQueue)
           /\ head.arg.id \notin Ids(store) )
         => /\ head.arg.id \notin Ids(clips')
            /\ head.arg.id \notin Ids(cards')
    ]_vars

\* C4: a confirmed deleteClip(id) of an id that is not in the store leaves
\* the store as it is and ends in no rejection: whichever way the delete
\* request of such an id completes, the store is unchanged and nothing is
\* left uncaught, and when it succeeds deleteClip goes on to loadClips.
C4_DeleteOfAbsentIdChangesNothing ==
  [][ ( /\ dbQueue # <<>>
        /\ head.req = "delete"
        /\ head.arg.id \notin Ids(store)
        /\ dbQueue' # dbQueue )
      => /\ store' = store
         /\ nextKey' = nextKey
         /\ ~last'.uncaught
         /\ (Len(dbQueue') = Len(dbQueue) /\ Tail(dbQueue) = SubSeq(dbQueue', 1, Len(dbQueue) - 1))
              => dbQueue'[Len(dbQueue')] = Request("getAll", "deleteClip", head.arg)
    ]_vars

\* Delete was clicked and confirmed twice on the card of clip 1: both
\* deletes have succeeded, the second on an id the first had removed, and
\* both handlers are at loadClips.
C4_Witness ==
  /\ Len(dbQueue) = 2
  /\ dbQueue[1] = Request("getAll", "deleteClip", Arg(1, <<>>))
  /\ dbQueue[2] = Request("getAll", "deleteClip", Arg(1, <<>>))
  /\ 1 \notin Ids(store)
  /\ Len(store) = 1
  /\ nextKey = 3

\* C5: a record leaves the store only through a delete the user confirmed.
\* A record of the store is missing or changed after a step only when the
\* step completes the delete request deleteClip made for its id; the step of
\* a declined confirmation (deleteClip reports, and shows no toast) makes no
\* request and leaves the store, the in-memory list and the view as they
\* were.
C5_OnlyConfirmedDeleteRemoves ==
  [][ /\ \A i \in 1..Len(store) :
           store[i] \notin Range(store')
             => /\ dbQueue # <<>>
                /\ head = Request("delete", "deleteClip", Arg(store[i].id, <<>>))
      /\ ( /\ last'.op = "deleteClip"
           /\ ~last'.ok
           /\ last'.notes = <<>> )
         => UNCHANGED <<store, nextKey, clips, cards, emptyHidden, dbQueue, reads>>
    ]_vars

\* The confirmation of a delete of clip 1 has been declined, on a page that
\* shows the two clips of the store.
C5_Witness ==
  /\ last = Done("deleteClip", 1, FALSE, <<>>, FALSE)
  /\ Ids(store) = {1, 2}
  /\ Ids(cards) = {1, 2}
  /\ dbQueue = <<>>

\* The lower-case form of a character, and q found in s at some place when
\* letters are compared without their case.
LowerOf(c) ==
  IF \E k \in 1..Len(UpperCase) : UpperCase[k] = c
  THEN LowerCase[CHOOSE k \in 1..Len(UpperCase) : UpperCase[k] = c]
  ELSE c

Occurs(q, s) ==
  \E at \in 0..(Len(s) - Len(q)) :
    \A k \in 1..Len(q) : LowerOf(s[at + k]) = LowerOf(q[k])

Matches(r, q) ==
  \/ Occurs(q, r.content)
  \/ r.memo # <<>> /\ Occurs(q, r.memo)
  \/ \E t \in Range(r.tags) : Occurs(q, t)

\* C6: a record passes the search filter of the view, and is returned by
\* searchClips, exactly when the search text occurs, letters compared without
\* case, in its content, in its memo if it has one, or in one of its tags;
\* an empty search text passes every record.  Of the view: with no category
\* set the cards are the records of the in-memory list that match, and with
\* a category set every card matches.  Of searchClips: for each search text
\* its result over the store is the records that match.
C6_SearchMatchesContentMemoOrTag ==
  /\ currentSearch # <<>>
       => /\ \A r \in Range(cards) : Matches(r, currentSearch)
          /\ currentFilter = ""
               => Range(cards) = {r \in Range(clips) : Matches(r, currentSearch)}
  /\ (currentSearch = <<>> /\ currentFilter = "") => Range(cards) = Range(clips)
  /\ \A q \in SearchTexts :
       /\ Range(searchClips(store, q, "")) = {r \in Range(store) : q = <<>> \/ Matches(r, q)}
       /\ Range(searchFilter(clips, q)) = {r \in Range(clips) : q = <<>> \/ Matches(r, q)}

\* The search text is ELL: of three clips the view shows the one whose
\* content is Hello.
C6_Witness ==
  /\ currentSearch = <<"E", "L", "L">>
  /\ currentFilter = ""
  /\ Len(clips) = 3
  /\ Len(cards) = 1
  /\ cards[1].content = <<"H", "e", "l", "l", "o">>

\* a was created before b: ISO strings compared field by field.
Before(a, b) ==
  \/ a.createdAt[1] < b.createdAt[1]
  \/ a.createdAt[1] = b.createdAt[1] /\ a.createdAt[2] < b.createdAt[2]

\* C7: the view is ordered by createdAt.  With sort order newest no card was
\* created before the card after it, with oldest no card after the card
\* after it; three clips created at t1 < t2 < t3, none filtered out, are
\* shown as t3, t2, t1 and as t1, t2, t3.
C7_ViewOrderedByCreatedAt ==
  /\ \A i \in 1..(Len(cards) - 1) :
       IF currentSort = "newest"
       THEN ~Before(cards[i], cards[i + 1])
       ELSE ~Before(cards[i + 1], cards[i])
  /\ ( /\ Len(store) = 3
       /\ Before(store[1], store[2])
       /\ Before(store[2], store[3])
       /\ currentSearch = <<>>
       /\ currentFilter = "" )
     => cards = IF currentSort = "newest"
                THEN <<store[3], store[2], store[1]>>
                ELSE <<store[1], store[2], store[3]>>

\* Three clips created at three times are shown oldest first.
C7_Witness ==
  /\ currentSort = "oldest"
  /\ Len(store) = 3
  /\ Before(store[1], store[2])
  /\ Before(store[2], store[3])
  /\ cards = store

\* C8: with the category filter set to t the view holds exactly the records
\* of type t that pass the search filter, each once, in the order of the
\* active sort (records created at the same time in the order of the
\* in-memory list); with no category set it holds every record that passes
\* the search filter.
C8_CategoryFilterExactType ==
  LET Passes(r) == currentSearch = <<>> \/ Matches(r, currentSearch)
      At(r) == CHOOSE k \in 1..Len(clips) : clips[k] = r
  IN /\ Range(cards) =
          {r \in Range(clips) : Passes(r) /\ (currentFilter = "" \/ r.type = currentFilter)}
     /\ Cardinality(Range(cards)) = Len(cards)
     /\ \A i, j \in 1..Len(cards) :
          i < j => /\ IF currentSort = "newest"
                      THEN ~Before(cards[i], cards[j])
                      ELSE ~Before(cards[j], cards[i])
                   /\ cards[i].createdAt = cards[j].createdAt => At(cards[i]) < At(cards[j])

\* Category image on a text clip and two images, oldest first: the view
\* shows the two images, the older one first.
C8_Witness ==
  /\ currentFilter = "image"
  /\ currentSort = "oldest"
  /\ Len(clips) = 3
  /\ \E i \in 1..3 : clips[i].type = "text"
  /\ Len(cards) = 2
  /\ cards[1].type = "image"
  /\ cards[2].type = "image"
  /\ Before(cards[1], cards[2])

\* C9: after a reload the view with its parameters at their defaults holds
\* each record of the store once and nothing else: when init has loaded the
\* clips, the cards are the store's records, as many as there are, no id
\* twice.
C9_ReloadShowsEveryRecordOnce ==
  (last.op = "init" /\ last.ok)
    => /\ currentSearch = <<>>
       /\ currentFilter = ""
       /\ currentSort = "newest"
       /\ Range(cards) = Range(store)
       /\ Len(cards) = Len(store)
       /\ Cardinality(Ids(cards)) = Len(cards)
       /\ Range(clips) = Range(store)
       /\ Len(clips) = Len(store)

\* Two saves into the empty store, no delete, then a reload whose init has
\* loaded the clips.
C9_Witness ==
  /\ last.op = "init"
  /\ last.ok
  /\ nextKey = 3
  /\ Ids(store) = {1, 2}
  /\ Ids(cards) = {1, 2}
  /\ Len(cards) = 2

\* C10: every successful save returns an id no record of the store has or
\* ever had.  The ids in the store are below the key generator and rise
\* along the store (save order); the generator never goes back, a reload
\* included; a record new to the store has an id at or above the generator
\* as it was, so above every id given out before it, deleted or not; and
\* the id saveClip resolves with is the one of the record it added.
C10_IdsUniqueIncreasingNeverReused ==
  [][ /\ nextKey' >= nextKey
      /\ \A i \in 1..Len(store') :
           /\ store'[i].id < nextKey'
           /\ store'[i].id \in Ids(store) \/ store'[i].id >= nextKey
      /\ \A i, j \in 1..Len(store') : i < j => store'[i].id < store'[j].id
      /\ ( /\ dbQueue # <<>>
           /\ head.req = "add"
           /\ Len(store') = Len(store) + 1 )
         => /\ store'[Len(store')].id \notin Ids(store)
            /\ dbQueue'[Len(dbQueue')].arg.id = store'[Len(store')].id
    ]_vars

\* Clip 1 was deleted; the save that got id 2 has run to its end and the
\* store holds clip 2 alone.
C10_Witness ==
  /\ last.op \in {"saveTextClip", "saveImageClip", "dropImage", "dropText"}
  /\ last.ok
  /\ last.id = 2
  /\ Ids(store) = {2}
  /\ Ids(cards) = {2}
  /\ nextKey = 3

\* C11: no update in place.  A record whose id is still in the store after
\* a step is, field for field (id, type, content, tags, memo, createdAt,
\* updatedAt and the rest), the record it was before the step; and a record
\* is stored with updatedAt equal to createdAt.
C11_NoUpdateInPlace ==
  [][ /\ \A i \in 1..Len(store) :
           \A j \in 1..Len(store') :
             store'[j].id = store[i].id => store'[j] = store[i]
      /\ \A j \in 1..Len(store') : store'[j].updatedAt = store'[j].createdAt
    ]_vars

\* Clip 1 is in the store after a second clip was saved and deleted and the
\* view was put to oldest first.
C11_Witness ==
  /\ Ids(store) = {1}
  /\ nextKey = 3
  /\ currentSort = "oldest"
  /\ Ids(cards) = {1}
  /\ dbQueue = <<>>

\* C12: in every reachable state every stored record has a content, and the
\* content is not empty, whichever way the record was made.
C12_StoredContentNonEmpty ==
  \A i \in 1..Len(store) :
    /\ "content" \in DOMAIN store[i]
    /\ store[i].content # <<>>

\* The cards are the view of the list under the three view parameters: the
\* records of the list that pass the search text and the category, each
\* once, ordered by createdAt in the direction of the sort order, records
\* of one time in the order of the list.
IsViewOf(shown, list) ==
  LET Passes(r) == currentSearch = <<>> \/ Matches(r, currentSearch)
      At(r) == CHOOSE k \in 1..Len(list) : list[k] = r
  IN /\ Range(shown) =
          {r \in Range(list) : Passes(r) /\ (currentFilter = "" \/ r.type = currentFilter)}
     /\ Cardinality(Range(shown)) = Len(shown)
     /\ \A i, j \in 1..Len(shown) :
          i < j => /\ IF currentSort = "newest"
                      THEN ~Before(shown[i], shown[j])
                      ELSE ~Before(shown[j], shown[i])
                   /\ shown[i].createdAt = shown[j].createdAt => At(shown[i]) < At(shown[j])

\* A save or a delete has run to its end: its storage call succeeded and
\* the handler has gone through loadClips and renderClips.
Completed ==
  /\ last.op \in {"saveTextClip", "saveImageClip", "dropImage", "dropText", "deleteClip"}
  /\ last.id # 0
  /\ \E k \in 1..Len(last.notes) : last.notes[k].type = "success"

\* C13: whenever a save or delete has completed and nothing else is under
\* way, the in-memory list holds exactly the records of the store, and the
\* cards are the view of that list under the current search text, category
\* and sort order.
C13_ViewInSyncAfterCompletion ==
  (Completed /\ InFlight = 0)
    => /\ Range(clips) = Range(store)
       /\ Len(clips) = Len(store)
       /\ IsViewOf(cards, clips)

\* C14: storage operations are serialized by the UI: at most one save or
\* delete is under way at any time.  Each save or delete under way has one
\* file read or one storage request pending, so at most one is pending.
C14_AtMostOneActionInFlight ==
  Len(reads) + Len(dbQueue) <= 1

\* s begins with p; s ends with p.
HasPrefix(s, p) == Len(p) <= Len(s) /\ \A k \in 1..Len(p) : s[k] = p[k]

HasSuffix(s, p) ==
  Len(p) <= Len(s) /\ \A k \in 1..Len(p) : s[Len(s) - Len(p) + k] = p[k]

\* The kind of a file of the given MIME type and name: image/* is an image;
\* otherwise text/*, application/json, *.txt and *.md are text.
ImageKind(type, name) == HasPrefix(type, <<"i", "m", "a", "g", "e", "/">>)

TextKind(type, name) ==
  /\ ~ImageKind(type, name)
  /\ \/ HasPrefix(type, <<"t", "e", "x", "t", "/">>)
     \/ type = <<"a", "p", "p", "l", "i", "c", "a", "t", "i", "o", "n", "/", "j", "s", "o", "n">>
     \/ HasSuffix(name, <<".", "t", "x", "t">>)
     \/ HasSuffix(name, <<".", "m", "d">>)

\* The type and the tags a record made from such a file is to have.
KindOf(type, name) == IF ImageKind(type, name) THEN "image" ELSE "text"

TagsOfKind(type, name) ==
  IF ImageKind(type, name)
  THEN << <<"d", "r", "o", "p", "p", "e", "d", "-", "f", "i", "l", "e">> >>
  ELSE << <<"d", "r", "o", "p", "p", "e", "d", "-", "f", "i", "l", "e">>,
          <<"t", "e", "x", "t", "-", "f", "i", "l", "e">> >>

\* C15: a dropped file is classified by MIME type and name, the image test
\* first.  Every record in the store, and every clip on its way to it, has
\* the type and the tags of its file's kind, and its file is of one of the
\* two kinds; a drop of one file of a kind starts one read, of that file,
\* and shows no toast; a drop of one file of neither kind starts no read,
\* makes no request and shows one error toast.
C15_DroppedFileClassified ==
  /\ \A j \in 1..Len(store) :
       /\ ImageKind(store[j].mimeType, store[j].filename)
            \/ TextKind(store[j].mimeType, store[j].filename)
       /\ store[j].type = KindOf(store[j].mimeType, store[j].filename)
       /\ store[j].tags = TagsOfKind(store[j].mimeType, store[j].filename)
  /\ \A j \in 1..Len(dbQueue) :
       dbQueue[j].req = "add"
         => /\ dbQueue[j].arg.clip.type
                 = KindOf(dbQueue[j].arg.clip.mimeType, dbQueue[j].arg.clip.filename)
            /\ dbQueue[j].arg.clip.tags
                 = TagsOfKind(dbQueue[j].arg.clip.mimeType, dbQueue[j].arg.clip.filename)
  /\ \A j \in 1..Len(reads) :
       ImageKind(reads[j].file.type, reads[j].file.name)
         \/ TextKind(reads[j].file.type, reads[j].file.name)
  /\ \A f \in DroppedFiles :
       IF ImageKind(f.type, f.name) \/ TextKind(f.type, f.name)
       THEN CanStart(1)
              => ENABLED ( /\ handleDrop(<<f>>)
                           /\ Len(reads') = Len(reads) + 1
                           /\ reads'[Len(reads')].file = f
                           /\ last'.notes = <<>> )
       ELSE ENABLED ( /\ handleDrop(<<f>>)
                      /\ reads' = reads
                      /\ dbQueue' = dbQueue
                      /\ store' = store
                      /\ Len(last'.notes) = 1
                      /\ last'.notes[1].type = "error" )

\* An image with the name of a text file and a JSON file have been dropped
\* and saved: the first as an image, the second as text.
C15_Witness ==
  /\ Len(store) = 2
  /\ store[1].filename = <<"i", ".", "t", "x", "t">>
  /\ store[1].type = "image"
  /\ store[1].tags = << <<"d", "r", "o", "p", "p", "e", "d", "-", "f", "i", "l", "e">> >>
  /\ store[2].filename = <<"j">>
  /\ store[2].type = "text"
  /\ Len(store[2].tags) = 2

\* C16: in a drop of several files a file that cannot be taken does not
\* stop the others.  For every list of files, wherever the files of neither
\* kind stand in it: the drop starts one read for each file of a kind, in
\* the order of the list, and shows one error toast for each file of
\* neither kind, in the order of the list, naming its MIME type; and a read
\* that is pending can complete into an add, an add into a record.
C16_UnsupportedFileStopsNoOther ==
  LET Taken(f) == ImageKind(f.type, f.name) \/ TextKind(f.type, f.name)
      NotTaken(f) == ~Taken(f)
      Named(f) == IF f.type # <<>> THEN f.type ELSE <<"u", "n", "k", "n", "o", "w", "n">>
  IN /\ \A files \in DroppedLists :
          LET taken == SelectSeq(files, Taken)
              others == SelectSeq(files, NotTaken)
          IN CanStart(Len(taken))
               => ENABLED ( /\ handleDrop(files)
                            /\ Len(reads') = Len(reads) + Len(taken)
                            /\ \A k \in 1..Len(taken) : reads'[Len(reads) + k].file = taken[k]
                            /\ Len(last'.notes) = Len(others)
                            /\ \A k \in 1..Len(others) :
                                 /\ last'.notes[k].type = "error"
                                 /\ last'.notes[k].detail = Named(others[k]) )
     /\ \A i \in 1..Len(reads) :
          ENABLED ( /\ ReadSucceed
                    /\ Len(reads') = Len(reads) - 1
                    /\ dbQueue'[Len(dbQueue')].req = "add"
                    /\ dbQueue'[Len(dbQueue')].arg.clip.filename = reads[i].file.name )
     /\ (dbQueue # <<>> /\ head.req = "add")
          => ENABLED ( /\ DbAddSucceed
                       /\ store'[Len(store')].filename = head.arg.clip.filename )

\* A drop of a PDF and, behind it, r.md on the new page: one error toast,
\* and the read of r.md is under way.
C16_Witness ==
  /\ last.op = "handleDrop"
  /\ Len(last.notes) = 1
  /\ last.notes[1].detail = PdfFile.type
  /\ Len(reads) = 1
  /\ reads[1].file = MdFile
  /\ dbQueue = <<>>
  /\ store = <<>>

\* C17: every failure of a storage call is surfaced.  Whenever a request to
\* the store (add, delete, getAll) fails, in whichever handler awaits it
\* (saveTextClip, saveImageClip, deleteClip, a dropped image, a dropped text
\* file, the initial load), the step shows an error toast.
C17_StorageFailureSurfaced ==
  [][(DbAddFail \/ DbDeleteFail \/ DbGetAllFail)
       => \E k \in 1..Len(last'.notes) : last'.notes[k].type = "error"]_vars

\* C18: no single failure is fatal.  When the step just taken ended in a
\* failure (of opening the store, of the initial load, of a save, of a
\* delete, of a clipboard write, of a file read), bindEvents has run and the
\* page still takes the user's gestures: add text, add image, search,
\* filter, sort, and delete of a card that is shown.
C18_NoFailureIsFatal ==
  ~last.ok =>
    /\ phase = "ready"
    /\ ENABLED ShowTextModal
    /\ ENABLED ShowImageModal
    /\ ENABLED HandleSearch
    /\ ENABLED HandleFilter
    /\ ENABLED HandleSort
    /\ (cards # <<>> /\ InFlight < MaxInFlight) => ENABLED DeleteClip

\* C19: once the page has rendered, and after every render since, the empty
\* state is visible exactly when no record of the in-memory list passes the
\* search text and the category; when it is visible there are no cards, and
\* when it is hidden the cards are the view: one card for each record that
\* passes, in the order of the view.
C19_EmptyStateIffViewEmpty ==
  phase = "ready" =>
    LET Passes(r) == /\ currentSearch = <<>> \/ Matches(r, currentSearch)
                     /\ currentFilter = "" \/ r.type = currentFilter
        view == {r \in Range(clips) : Passes(r)}
    IN /\ ~emptyHidden <=> view = {}
       /\ ~emptyHidden => cards = <<>>
       /\ emptyHidden => Len(cards) = Cardinality(view) /\ IsViewOf(cards, clips)

\* The empty state is visible over a list that is not empty: a search text
\* is set that no record matches.
C19_Witness ==
  /\ phase = "ready"
  /\ ~emptyHidden
  /\ clips # <<>>
  /\ currentSearch # <<>>
  /\ cards = <<>>

\* C20: each of handleSearch, handleFilter and handleSort sets its own view
\* parameter and no other.  A step of handleSearch sets the search text to
\* what was typed and leaves category and sort order; a step of handleFilter
\* changes at most the category; a step of handleSort at most the sort
\* order; no such step changes a record of the store or which records the
\* in-memory list holds; and after it the cards are the view of the list
\* under the three parameters as they now are.
C20_InputChangeSetsOwnParameterAndRenders ==
  /\ [][/\ \A query \in SearchTexts :
             handleSearch(query)
               => currentSearch' = query /\ UNCHANGED <<currentFilter, currentSort>>
        /\ HandleFilter
             => currentFilter' \in Categories /\ UNCHANGED <<currentSearch, currentSort>>
        /\ HandleSort
             => currentSort' \in SortOrders /\ UNCHANGED <<currentSearch, currentFilter>>
        /\ Cardinality({p \in 1..3 : <<currentSearch, currentFilter, currentSort>>[p]
                                       # <<currentSearch', currentFilter', currentSort'>>[p]}) <= 1
        /\ UNCHANGED <<store, nextKey>>
        /\ Range(clips') = Range(clips) /\ Len(clips') = Len(clips)]_vars
  /\ [](IsViewOf(cards, clips) /\ (emptyHidden <=> cards # <<>>))

\* All three parameters have been set, one after the other, and the cards
\* are some of the records of the list, oldest first.
C20_Witness ==
  /\ currentSearch # <<>>
  /\ currentFilter # ""
  /\ currentSort = "oldest"
  /\ Len(cards) = 2
  /\ Len(clips) = 3
  /\ Before(cards[1], cards[2])

\* C21: the view derivation is a pure function: a render returns the view
\* and leaves the in-memory list as it was, in its records and in their
\* order, whatever the search text, the category and the sort order are,
\* none set included.
C21_RenderLeavesListUnchanged ==
  [][clips' = clips]_vars

\* C22: Escape closes every overlay.  After a step of handleKeyboard with
\* key Escape the text modal, the image modal and the image preview are
\* hidden, the fields of the text modal are empty, the image modal has no
\* file chosen and its tag and memo fields are empty, whichever of the three
\* were open and whatever their fields held.
C22_EscapeClosesEveryOverlay ==
  [][Escape =>
       /\ ~textModal'.open /\ ~imageModal'.open /\ ~previewModal'.open
       /\ textModal'.form.content = <<>>
       /\ textModal'.form.tags = <<>>
       /\ textModal'.form.memo = <<>>
       /\ imageModal'.form.file.name = <<>> /\ imageModal'.form.file.size = -1
       /\ imageModal'.form.tags = <<>>
       /\ imageModal'.form.memo = <<>>]_vars

\* All three overlays are open, the fields of the two modals are filled in,
\* and Escape can be pressed.
C22_Witness ==
  /\ textModal.open /\ imageModal.open /\ previewModal.open
  /\ textModal.form.content # <<>>
  /\ imageModal.form.file = PngFile
  /\ imageModal.form.memo # <<>>
  /\ ENABLED (Escape /\ ~textModal'.open /\ ~imageModal'.open /\ ~previewModal'.open)

\* C23: a save cannot be aborted.  saveImageClip, once past its validation,
\* starts a read that holds the file chosen and the tags and the memo of the
\* fields as they are at that moment; closing the image modal, pressing
\* Escape and changing the fields leave every read and every request under
\* way as it is; the read, when it completes, asks the store to add a clip
\* with that file, those tags and that memo; and the add, when it succeeds,
\* stores that clip.
C23_SaveCannotBeAborted ==
  [][/\ SaveImageClip =>
          LET read == reads'[Len(reads')]
          IN /\ Len(reads') = Len(reads) + 1
             /\ read.op = "saveImageClip"
             /\ read.file = imageModal.form.file
             /\ IsTagsOf(read.tags, imageModal.form.tags)
             /\ IsTrimOf(read.memo, imageModal.form.memo)
     /\ (HideImageModal \/ Escape \/ ChooseImage) => UNCHANGED <<reads, dbQueue, store>>
     /\ ReadSucceed =>
          \E i \in 1..Len(reads) :
            LET clip == dbQueue'[Len(dbQueue')].arg.clip
            IN /\ reads' = RemoveAt(reads, i)
               /\ Len(dbQueue') = Len(dbQueue) + 1
               /\ dbQueue'[Len(dbQueue')].req = "add"
               /\ clip.filename = reads[i].file.name
               /\ clip.filesize = reads[i].file.size
               /\ clip.mimeType = reads[i].file.type
               /\ clip.tags = reads[i].tags
               /\ clip.memo = reads[i].memo
               /\ reads[i].op = "saveImageClip"
                    => clip.type = "image" /\ HasSuffix(clip.content, reads[i].file.base64)
     /\ DbAddSucceed =>
          /\ Len(store') = Len(store) + 1
          /\ \A f \in DOMAIN head.arg.clip :
               store'[Len(store')][f] = head.arg.clip[f]]_vars

\* The image modal was closed while its save was under way, and the record
\* is in the store with the file, the tag and the memo of the fields.
C23_Witness ==
  /\ ~imageModal.open
  /\ store # <<>>
  /\ dbQueue # <<>>
  /\ head.req = "getAll"
  /\ head.op = "saveImageClip"
  /\ store[Len(store)].filename = PngFile.name
  /\ store[Len(store)].tags = <<<<"x">>>>
  /\ store[Len(store)].memo = <<"M">>

\* C24: liveness.  With every file read and every storage request completing
\* in the end, a save, a delete or a drop that has a read or a request
\* under way ends in the end with its handler showing a success or an error
\* toast, unless the page is loaded again first.
C24_EveryActionEndsWithNotification ==
  \A op \in {"saveTextClip", "saveImageClip", "deleteClip", "dropImage", "dropText"} :
    Pending(op) ~> ((last.op = op /\ last.notes # <<>>) \/ phase = "opening")

\* C25: handleDrop takes the files of a drop one at a time and in the order
\* of the drop.  The reads under way are held in the order their files were
\* dropped; the save of a file starts when its read completes; so the read
\* that completes is the oldest one under way, and it completes when no
\* save or reload of an earlier file is still under way.
C25_DropSavesOneAtATimeInOrder ==
  [][ReadSucceed => (reads' = Tail(reads) /\ dbQueue = <<>>)]_vars

\* C26: one filled-in modal yields at most one record.  saveTextClip invoked
\* while an earlier saveTextClip with the same content still awaits its
\* storage call asks the store for nothing, and so does saveImageClip
\* invoked while an earlier saveImageClip of the same file still awaits its
\* read or its storage call.
C26_SecondSaveStoresNothing ==
  [][/\ (/\ SaveTextClip
         /\ \E i \in 1..Len(dbQueue) :
              /\ dbQueue[i].req = "add"
              /\ dbQueue[i].op = "saveTextClip"
              /\ IsTrimOf(dbQueue[i].arg.clip.content, textModal.form.content))
          => UNCHANGED dbQueue
     /\ (/\ SaveImageClip
         /\ \/ \E i \in 1..Len(reads) :
                 reads[i].op = "saveImageClip" /\ reads[i].file = imageModal.form.file
            \/ \E i \in 1..Len(dbQueue) :
                 /\ dbQueue[i].req = "add"
                 /\ dbQueue[i].op = "saveImageClip"
                 /\ dbQueue[i].arg.clip.filename = imageModal.form.file.name)
          => UNCHANGED <<reads, dbQueue>>]_vars

\* C27: a save or a delete that passed validation and confirmation and ran
\* to its end shows exactly one toast: a success toast exactly when its
\* storage mutation (the add, the delete) succeeded, an error toast
\* otherwise, and never one of each.  The handler ends either where its
\* mutation fails or after the reload that follows the mutation.
C27_ExactlyOneNotification ==
  [][(/\ dbQueue # <<>>
      /\ head.op \in {"saveTextClip", "saveImageClip", "deleteClip"}
      /\ DbAddFail \/ DbDeleteFail \/ DbGetAllSucceed \/ DbGetAllFail)
       => /\ Len(last'.notes) = 1
          /\ last'.notes[1].type = IF head.req = "getAll" THEN "success" ELSE "error"]_vars

\* C28: the user's input is kept on failure.  When the add of saveTextClip
\* or of saveImageClip fails, the two modals are as they were: open, with
\* the values of their fields.  A modal that was open is hidden only by its
\* Cancel button or a click outside it, by Escape, at the end of a save of
\* its handler whose add succeeded, or with the page when it is loaded
\* again; and it is then that its fields are cleared.
C28_InputKeptOnFailure ==
  [][/\ DbAddFail => UNCHANGED <<textModal, imageModal>>
     /\ (textModal.open /\ textModal' # textModal /\ ~TypeText)
          => /\ ~textModal'.open /\ textModal'.form.content = <<>>
             /\ \/ HideTextModal
                \/ Escape
                \/ phase' = "opening"
                \/ /\ dbQueue # <<>> /\ head.req = "getAll" /\ head.op = "saveTextClip"
                   /\ head.arg.id \in Ids(store)
     /\ (imageModal.open /\ imageModal' # imageModal /\ ~ChooseImage)
          => /\ ~imageModal'.open /\ imageModal'.form.file.size = -1
             /\ \/ HideImageModal
                \/ Escape
                \/ phase' = "opening"
                \/ /\ dbQueue # <<>> /\ head.req = "getAll" /\ head.op = "saveImageClip"
                   /\ head.arg.id \in Ids(store)]_vars

\* The add of saveTextClip has failed: the error toast is shown and the text
\* modal is open with what was typed.
C28_Witness ==
  /\ last.op = "saveTextClip"
  /\ ~last.ok
  /\ Len(last.notes) = 1
  /\ last.notes[1].message = "Failed to save clip"
  /\ textModal.open
  /\ textModal.form.content = <<" ", "H", "e", "l", "l", "o", " ">>

\* C29: deleting from the image preview asks for confirmation once.  When
\* the user has accepted the confirmation of the preview's Delete button,
\* the store is asked to delete the clip of the preview with no further
\* question, and the preview is hidden by that gesture only when the clip is
\* no longer in the store.
C29_PreviewDeleteConfirmsOnce ==
  [][(PreviewDelete \/ PreviewDeleteThenDeclined)
       => /\ \E i \in 1..Len(dbQueue') :
               dbQueue'[i].req = "delete" /\ dbQueue'[i].arg.id = previewModal.id
          /\ ~previewModal'.open => previewModal.id \notin Ids(store')]_vars

\* C30: the order of the cards is determined by the store and the three
\* view parameters alone.  Whatever changes of search text, category and
\* sort order came before, the cards are the records of the store that pass
\* the search text and the category, each once, ordered by createdAt in the
\* direction of the sort order, records created at the same time in the
\* order of the store: one sequence for each store and each setting of the
\* parameters.
C30_OrderDeterminedByStoreAndParameters ==
  IsViewOf(cards, store)

\* After changes of all three parameters two records created at the same
\* time are shown, in the order of their ids.
C30_Witness ==
  /\ currentSort = "oldest"
  /\ currentFilter # ""
  /\ currentSearch # <<>>
  /\ Len(cards) >= 2
  /\ cards[1].createdAt = cards[2].createdAt
  /\ cards[1].id < cards[2].id

====
